---- MODULE Spec2Model ----
(***************************************************************************)
(* Model of the go-odoo XML-RPC client (src/odoo.go, src/errors.go).       *)
(*                                                                         *)
(* One session is modelled: its configuration, its authentication state    *)
(* (uid, auth), its two transport handles (common, object), and, for the   *)
(* last operation run, the state it started from (pre), what it returned   *)
(* (ret) and the remote calls it issued (calls).  The transports and the   *)
(* server are the environment: every reply they can give is drawn with \E. *)
(***************************************************************************)
EXTENDS Integers, Sequences, FiniteSets, TLC

\* Largest user id / record id the server answers with.
MaxUid == 2
\* Largest number of context maps handed to one call.
MaxCtx == 2
\* Largest number of expressions handed to NewDomain.
MaxClauses == 2
\* Saturation of the count of successful authenticate calls.
MaxAuthCount == 3
\* Longest Args list built, and most values handed to one Append.
MaxArgsLen == 4
MaxAppend == 2

VARIABLES cfg, client, uid, auth, common, object, closed, panicked,
          pre, ret, calls, opens, authOk, domIn, dom, req, ek, app

vars == <<cfg, client, uid, auth, common, object, closed, panicked,
          pre, ret, calls, opens, authOk, domIn, dom, req, ek, app>>

(***************************************************************************)
(* Dynamically typed values (Go interface{}): a pair <<dynamic type, v>>.  *)
(***************************************************************************)
Nil == <<"nil", 0>>
Str(s) == <<"string", s>>
GoInt(n) == <<"int", n>>
Int64(n) == <<"int64", n>>
Bool(b) == <<"bool", b>>
List(s) == <<"[]interface{}", s>>
Ids(s) == <<"[]int64", s>>
Strings(s) == <<"[]string", s>>
Map(m) == <<"map", m>>
DomainVal(d) == <<"Domain", d>>

TypeOf(v) == v[1]
ValOf(v) == v[2]

OpAND == "&"
OpOR == "|"

(***************************************************************************)
(* ClientConfig and its validity.                                          *)
(***************************************************************************)
Configs ==
    [Url : {"", "http://localhost:8069"}, Db : {"", "test"},
     Username : {"", "admin"}, Password : {"", "secret"}]

IsValid_NoPassword(config) ==
    config.Url # "" /\ config.Db # "" /\ config.Username # ""

IsValid(config) ==
    config.Url # "" /\ config.Db # "" /\ config.Username # "" /\ config.Password # ""

(***************************************************************************)
(* Session helpers.                                                        *)
(***************************************************************************)
isAuthenticated(u, a) == u # 0 /\ a

getArgs_AlwaysLogin(u, a, config) ==
    <<Str(config.Db), Str(config.Username), Str(config.Password), Str("")>>

getArgs(u, a, config) ==
    IF isAuthenticated(u, a)
    THEN <<Str(config.Db), Int64(u), Str(config.Password)>>
    ELSE <<Str(config.Db), Str(config.Username), Str(config.Password), Str("")>>

\* Args.Append: the list followed by the appended values, in call order.
Append_Prepend(args, more) == more \o args

Append_(args, more) == args \o more

(***************************************************************************)
(* The environment: replies of one XML-RPC call on a transport handle.     *)
(* A reply is [err, val]; on error the decoded result stays nil.  A handle *)
(* that was closed only answers with an error.                             *)
(***************************************************************************)
ErrReply == [err |-> TRUE, val |-> Nil]
OkReply(v) == [err |-> FALSE, val |-> v]

AuthResponses == {Int64(n) : n \in 0..MaxUid} \cup {Bool(FALSE)}

ExecResponses ==
    {Int64(0), Int64(1), Bool(TRUE), List(<<>>), List(<<Int64(1)>>),
     List(<<Str("x")>>)}

Replies(handle, responses) ==
    IF handle = "open" THEN {ErrReply} \cup {OkReply(v) : v \in responses}
    ELSE {ErrReply}

\* client.call through one endpoint: the record of the call as issued.
call(endpoint, handle, method, args, u, a, reply) ==
    [endpoint |-> endpoint, handle |-> handle, method |-> method,
     args |-> args, authed |-> isAuthenticated(u, a), reply |-> reply]

commonCall(handle, method, args, u, a, reply) ==
    call("common", handle, method, args, u, a, reply)

objectCall(handle, method, args, u, a, reply) ==
    call("object", handle, method, args, u, a, reply)

\* uid != 0 on an interface value: the constant 0 has dynamic type int.
NotIntZero(v) == v # GoInt(0)

(***************************************************************************)
(* Client.Authenticate.  The err assigned in the else branch is the one    *)
(* declared by the if statement, so the function's own err stays nil.      *)
(* Result: the new uid and auth, the error returned, the calls issued and  *)
(* whether the type assertion uid.(int64) panicked.                        *)
(***************************************************************************)
AuthenticateEff_NoGuard(u, a, config, handle, reply) ==
    LET c == commonCall(handle, "authenticate", getArgs(u, a, config), u, a, reply)
    IN  IF NotIntZero(reply.val) /\ ~reply.err
        THEN IF TypeOf(reply.val) = "int64"
             THEN [uid |-> ValOf(reply.val), auth |-> TRUE, err |-> "nil",
                   calls |-> <<c>>, panic |-> FALSE]
             ELSE [uid |-> u, auth |-> a, err |-> "nil",
                   calls |-> <<c>>, panic |-> TRUE]
        ELSE [uid |-> u, auth |-> a, err |-> "nil",
              calls |-> <<c>>, panic |-> FALSE]

AuthenticateEff(u, a, config, handle, reply) ==
    IF ~isAuthenticated(u, a)
    THEN LET c == commonCall(handle, "authenticate", getArgs(u, a, config), u, a, reply)
         IN  IF NotIntZero(reply.val) /\ ~reply.err
             THEN IF TypeOf(reply.val) = "int64"
                  THEN [uid |-> ValOf(reply.val), auth |-> TRUE, err |-> "nil",
                        calls |-> <<c>>, panic |-> FALSE]
                  ELSE [uid |-> u, auth |-> a, err |-> "nil",
                        calls |-> <<c>>, panic |-> TRUE]
             ELSE [uid |-> u, auth |-> a, err |-> "nil",
                   calls |-> <<c>>, panic |-> FALSE]
    ELSE [uid |-> u, auth |-> a, err |-> "nil", calls |-> <<>>, panic |-> FALSE]

\* An authenticate call that the server accepted: no error, a non-zero id.
Accepted(c) ==
    /\ c.method = "authenticate"
    /\ ~c.reply.err
    /\ TypeOf(c.reply.val) = "int64"
    /\ ValOf(c.reply.val) # 0

CountAccepted(cs) == Cardinality({i \in 1..Len(cs) : Accepted(cs[i])})

Bump(n, k) == IF n + k > MaxAuthCount THEN MaxAuthCount ELSE n + k

State == [uid |-> uid, auth |-> auth, common |-> common, object |-> object,
          closed |-> closed, client |-> client]

Ret(op, cl, err, result, nctx) ==
    [op |-> op, client |-> cl, err |-> err, result |-> result, nctx |-> nctx]

\* The arguments of the last call through ExecuteKw; passed: the call got
\* past the authentication check.
Req(model, method, args, context, passed) ==
    [model |-> model, method |-> method, args |-> args, context |-> context,
     passed |-> passed]

NoReq == Req("", "", <<>>, <<>>, FALSE)

\* An ExecuteKw whose steps interleave with other callers: where it stands
\* (pc), its arguments and the params it has built.
EkIdle == [pc |-> "idle", req |-> NoReq, params |-> <<>>]

\* An Args list under construction: the literal it started from (base), and
\* for its last Append the list before, the values appended, the list after.
NoAppend == [base |-> <<>>, prev |-> <<>>, more |-> <<>>, out |-> <<>>]

(***************************************************************************)
(* Initial state: no session yet, a configuration chosen by the caller.    *)
(***************************************************************************)
Init ==
    /\ cfg \in Configs
    /\ client = "none"
    /\ uid = 0
    /\ auth = FALSE
    /\ common = "nil"
    /\ object = "nil"
    /\ closed = FALSE
    /\ panicked = FALSE
    /\ pre = [uid |-> 0, auth |-> FALSE, common |-> "nil", object |-> "nil",
              closed |-> FALSE, client |-> "none"]
    /\ ret = Ret("none", "na", "nil", Nil, 0)
    /\ calls = <<>>
    /\ opens = 0
    /\ authOk = 0
    /\ domIn = <<>>
    /\ dom = <<>>
    /\ req = NoReq
    /\ ek = EkIdle
    /\ app = NoAppend

(***************************************************************************)
(* NewClient(config).  openCommon / openObject: whether xmlrpc.NewClient   *)
(* succeeds for the endpoint; the object endpoint is only opened when the  *)
(* common one was.                                                         *)
(***************************************************************************)
NewClient ==
    /\ req' = NoReq
    /\ UNCHANGED <<ek, app>>
    /\ client = "none"
    /\ ~panicked
    /\ pre' = State
    /\ UNCHANGED <<cfg, closed, domIn, dom>>
    /\ IF IsValid(cfg)
       THEN \E openCommon \in BOOLEAN, openObject \in BOOLEAN :
              IF ~openCommon
              THEN /\ opens' = 1
                   /\ client' = "nil"
                   /\ ret' = Ret("NewClient", "nil", "TransportError", Nil, 0)
                   /\ calls' = <<>>
                   /\ UNCHANGED <<uid, auth, common, object, panicked, authOk>>
              ELSE IF ~openObject
              THEN /\ opens' = 2
                   /\ client' = "nil"
                   /\ ret' = Ret("NewClient", "nil", "TransportError", Nil, 0)
                   /\ calls' = <<>>
                   /\ UNCHANGED <<uid, auth, common, object, panicked, authOk>>
              ELSE \E reply \in Replies("open", AuthResponses) :
                     LET r == AuthenticateEff(0, FALSE, cfg, "open", reply)
                     IN  /\ opens' = 2
                         /\ calls' = r.calls
                         /\ authOk' = Bump(authOk, CountAccepted(r.calls))
                         /\ panicked' = r.panic
                         /\ IF r.panic
                            THEN /\ client' = "nil"
                                 /\ ret' = Ret("NewClient", "na", "panic", Nil, 0)
                                 /\ UNCHANGED <<uid, auth, common, object>>
                            ELSE /\ uid' = r.uid
                                 /\ auth' = r.auth
                                 /\ common' = "open"
                                 /\ object' = "open"
                                 /\ client' = IF r.err # "nil" THEN "nil" ELSE "live"
                                 /\ ret' = Ret("NewClient",
                                               IF r.err # "nil" THEN "nil" ELSE "nonnil",
                                               r.err, Nil, 0)
       ELSE /\ client' = "nil"
            /\ ret' = Ret("NewClient", "nil", "InvalidConfigError", Nil, 0)
            /\ calls' = <<>>
            /\ UNCHANGED <<uid, auth, common, object, panicked, opens, authOk>>

(***************************************************************************)
(* client.Authenticate() called by the owner of a live session.            *)
(***************************************************************************)
Authenticate ==
    /\ req' = NoReq
    /\ UNCHANGED <<ek, app>>
    /\ client = "live"
    /\ ~panicked
    /\ pre' = State
    /\ \E reply \in Replies(common, AuthResponses) :
         LET r == AuthenticateEff(uid, auth, cfg, common, reply)
         IN  /\ uid' = r.uid
             /\ auth' = r.auth
             /\ calls' = r.calls
             /\ authOk' = Bump(authOk, CountAccepted(r.calls))
             /\ panicked' = r.panic
             /\ ret' = Ret("Authenticate", "na", IF r.panic THEN "panic" ELSE r.err, Nil, 0)
    /\ UNCHANGED <<cfg, client, common, object, closed, opens, domIn, dom>>

(***************************************************************************)
(* client.Close().  commonErr / objectErr: whether the transport's Close   *)
(* reports an error.  A handle whose Close was invoked is released.        *)
(***************************************************************************)
CloseEff_ResetOnSuccess(u, a, com, obj, commonErr, objectErr) ==
    LET err1 == IF com # "nil" THEN commonErr ELSE FALSE
        closeObj == ~err1 /\ obj # "nil"
        err2 == IF closeObj THEN objectErr ELSE err1
    IN  [uid |-> IF err2 THEN u ELSE 0, auth |-> IF err2 THEN a ELSE FALSE,
         common |-> IF com # "nil" THEN "closed" ELSE com,
         object |-> IF closeObj THEN "closed" ELSE obj,
         err |-> IF err2 THEN "TransportError" ELSE "nil"]

CloseEff(u, a, com, obj, commonErr, objectErr) ==
    LET err1 == IF com # "nil" THEN commonErr ELSE FALSE
        closeObj == ~err1 /\ obj # "nil"
        err2 == IF closeObj THEN objectErr ELSE err1
    IN  [uid |-> 0, auth |-> FALSE,
         common |-> IF com # "nil" THEN "closed" ELSE com,
         object |-> IF closeObj THEN "closed" ELSE obj,
         err |-> IF err2 THEN "TransportError" ELSE "nil"]

Close ==
    /\ req' = NoReq
    /\ UNCHANGED <<ek, app>>
    /\ client = "live"
    /\ ~panicked
    /\ pre' = State
    /\ \E commonErr \in BOOLEAN, objectErr \in BOOLEAN :
         LET r == CloseEff(uid, auth, common, object, commonErr, objectErr)
         IN  /\ uid' = r.uid
             /\ auth' = r.auth
             /\ common' = r.common
             /\ object' = r.object
             /\ ret' = Ret("Close", "na", r.err, Nil, 0)
    /\ closed' = TRUE
    /\ calls' = <<>>
    /\ UNCHANGED <<cfg, client, panicked, opens, authOk, domIn, dom>>

(***************************************************************************)
(* Domain builder.                                                         *)
(***************************************************************************)
Clause(field, op, values) == List(<<Str(field), Str(op), values>>)

\* Domain{clauses}: a Domain whose elements are listed between the braces.
NewDomain_Spread(clauses) == clauses

NewDomain(clauses) == <<List(clauses)>>

Exprs == {Clause("active", "=", GoInt(1)), Str(OpOR)}

SeqsUpTo(S, n) == UNION {[1..k -> S] : k \in 0..n}

DoNewDomain ==
    /\ req' = NoReq
    /\ UNCHANGED <<ek, app>>
    /\ ~panicked
    /\ pre' = State
    /\ \E clauses \in SeqsUpTo(Exprs, MaxClauses) :
         /\ domIn' = clauses
         /\ dom' = NewDomain(clauses)
    /\ ret' = Ret("NewDomain", "na", "nil", Nil, 0)
    /\ calls' = <<>>
    /\ UNCHANGED <<cfg, client, uid, auth, common, object, closed, panicked,
                   opens, authOk>>

(***************************************************************************)
(* Client.ExecuteKw.                                                       *)
(***************************************************************************)
ArgsVal(s) == <<"Args", s>>
NilIds == <<"[]int64", "nil">>

Contexts(n) == [i \in 1..n |-> Map(i)]

\* The context check: exactly one context is appended, more are an error.
ContextErr_AboveTwo(n) ==
    IF n = 1 THEN "nil" ELSE IF n > 2 THEN "InvalidContextError" ELSE "nil"

ContextErr(n) ==
    IF n = 1 THEN "nil" ELSE IF n >= 1 THEN "InvalidContextError" ELSE "nil"

ExecuteKwEff_NoAuthCheck(u, a, config, handle, method, model, args, context, reply) ==
    LET base == Append_(getArgs(u, a, config), <<Str(model), Str(method), ArgsVal(args)>>)
        params == IF Len(context) = 1 THEN Append_(base, <<context[1]>>) ELSE base
        err == ContextErr(Len(context))
    IN  IF err = "nil"
        THEN [result |-> reply.val,
              err |-> IF reply.err THEN "TransportError" ELSE "nil",
              calls |-> <<objectCall(handle, "execute_kw", params, u, a, reply)>>]
        ELSE [result |-> Nil, err |-> err, calls |-> <<>>]

ExecuteKwEff_MethodFirst(u, a, config, handle, method, model, args, context, reply) ==
    LET base == Append_(getArgs(u, a, config), <<Str(method), Str(model), ArgsVal(args)>>)
        params == IF Len(context) = 1 THEN Append_(base, <<context[1]>>) ELSE base
        err == ContextErr(Len(context))
    IN  IF err = "nil"
        THEN IF isAuthenticated(u, a)
             THEN [result |-> reply.val,
                   err |-> IF reply.err THEN "TransportError" ELSE "nil",
                   calls |-> <<objectCall(handle, "execute_kw", params, u, a, reply)>>]
             ELSE [result |-> Nil, err |-> "ClientAuthError", calls |-> <<>>]
        ELSE [result |-> Nil, err |-> err, calls |-> <<>>]

ExecuteKwEff_Retry(u, a, config, handle, method, model, args, context, reply) ==
    LET base == Append_(getArgs(u, a, config), <<Str(model), Str(method), ArgsVal(args)>>)
        params == IF Len(context) = 1 THEN Append_(base, <<context[1]>>) ELSE base
        err == ContextErr(Len(context))
        c == objectCall(handle, "execute_kw", params, u, a, reply)
    IN  IF err = "nil"
        THEN IF isAuthenticated(u, a)
             THEN [result |-> reply.val,
                   err |-> IF reply.err THEN "TransportError" ELSE "nil",
                   calls |-> IF reply.err THEN <<c, c>> ELSE <<c>>]
             ELSE [result |-> Nil, err |-> "ClientAuthError", calls |-> <<>>]
        ELSE [result |-> Nil, err |-> err, calls |-> <<>>]

ExecuteKwEff(u, a, config, handle, method, model, args, context, reply) ==
    LET base == Append_(getArgs(u, a, config), <<Str(model), Str(method), ArgsVal(args)>>)
        params == IF Len(context) = 1 THEN Append_(base, <<context[1]>>) ELSE base
        err == ContextErr(Len(context))
    IN  IF err = "nil"
        THEN IF isAuthenticated(u, a)
             THEN [result |-> reply.val,
                   err |-> IF reply.err THEN "TransportError" ELSE "nil",
                   calls |-> <<objectCall(handle, "execute_kw", params, u, a, reply)>>]
             ELSE [result |-> Nil, err |-> "ClientAuthError", calls |-> <<>>]
        ELSE [result |-> Nil, err |-> err, calls |-> <<>>]

(***************************************************************************)
(* Result coercion of the typed wrappers: the zero value when ExecuteKw    *)
(* returned an error, else a type assertion that panics on another type.   *)
(***************************************************************************)
AllInt64(s) == \A i \in 1..Len(s) : TypeOf(s[i]) = "int64"

Coerce_Always(kind, err, response) ==
    CASE kind = "raw" -> [panic |-> FALSE, result |-> response]
      [] kind = "int64" ->
           IF TypeOf(response) = "int64"
           THEN [panic |-> FALSE, result |-> response]
           ELSE [panic |-> TRUE, result |-> Nil]
      [] kind = "bool" ->
           IF TypeOf(response) = "bool"
           THEN [panic |-> FALSE, result |-> response]
           ELSE [panic |-> TRUE, result |-> Nil]
      [] kind = "ids" ->
           IF TypeOf(response) = "[]interface{}" /\ AllInt64(ValOf(response))
           THEN [panic |-> FALSE,
                 result |-> Ids([i \in 1..Len(ValOf(response)) |-> ValOf(ValOf(response)[i])])]
           ELSE [panic |-> TRUE, result |-> Nil]

Coerce(kind, err, response) ==
    CASE kind = "raw" -> [panic |-> FALSE, result |-> response]
      [] kind = "int64" ->
           IF err # "nil" THEN [panic |-> FALSE, result |-> Int64(0)]
           ELSE IF TypeOf(response) = "int64"
           THEN [panic |-> FALSE, result |-> response]
           ELSE [panic |-> TRUE, result |-> Nil]
      [] kind = "bool" ->
           IF err # "nil" THEN [panic |-> FALSE, result |-> Bool(FALSE)]
           ELSE IF TypeOf(response) = "bool"
           THEN [panic |-> FALSE, result |-> response]
           ELSE [panic |-> TRUE, result |-> Nil]
      [] kind = "ids" ->
           IF err # "nil" THEN [panic |-> FALSE, result |-> NilIds]
           ELSE IF TypeOf(response) = "[]interface{}" /\ AllInt64(ValOf(response))
           THEN [panic |-> FALSE,
                 result |-> Ids([i \in 1..Len(ValOf(response)) |-> ValOf(ValOf(response)[i])])]
           ELSE [panic |-> TRUE, result |-> Nil]

Models == {"res.users"}
IdLists == {<<1>>}
FieldLists == {<<>>, <<"login", "name">>}

\* One call through ExecuteKw by operation op, its result coerced as kind.
Dispatch(op, kind, method, model, args) ==
    /\ pre' = State
    /\ \E n \in 0..MaxCtx, reply \in Replies(object, ExecResponses) :
         LET r == ExecuteKwEff(uid, auth, cfg, object, method, model, args,
                               Contexts(n), reply)
             c == Coerce(kind, r.err, r.result)
         IN  /\ calls' = r.calls
             /\ panicked' = c.panic
             /\ ret' = Ret(op, "na", IF c.panic THEN "panic" ELSE r.err, c.result, n)
             /\ req' = Req(model, method, args, Contexts(n), r.calls # <<>>)
    /\ UNCHANGED <<ek, app>>
    /\ UNCHANGED <<cfg, client, uid, auth, common, object, closed, opens, authOk,
                   domIn, dom>>

ExecuteKw ==
    /\ client = "live"
    /\ ~panicked
    /\ \E model \in Models, args \in {<<>>, <<Ids(<<1>>)>>} :
         Dispatch("ExecuteKw", "raw", "name_get", model, args)

Read ==
    /\ client = "live"
    /\ ~panicked
    /\ \E model \in Models, ids \in IdLists, fields \in FieldLists :
         LET args == IF Len(fields) # 0
                     THEN Append_(<<Ids(ids)>>, <<Strings(fields)>>)
                     ELSE <<Ids(ids)>>
         IN  Dispatch("Read", "raw", "read", model, args)

Create ==
    /\ client = "live"
    /\ ~panicked
    /\ \E model \in Models :
         Dispatch("Create", "int64", "create", model, <<Map("values")>>)

Write ==
    /\ client = "live"
    /\ ~panicked
    /\ \E model \in Models, ids \in IdLists :
         Dispatch("Write", "bool", "write", model, <<Ids(ids), Map("values")>>)

Unlink ==
    /\ client = "live"
    /\ ~panicked
    /\ \E model \in Models, ids \in IdLists :
         Dispatch("Unlink", "bool", "unlink", model, <<Ids(ids)>>)

\* Search appends the elements of the domain one by one to an empty Args.
RECURSIVE SearchArgs(_, _, _)
SearchArgs(domain, i, args) ==
    IF i > Len(domain) THEN args
    ELSE SearchArgs(domain, i + 1, Append_(args, <<domain[i]>>))

Search ==
    /\ client = "live"
    /\ ~panicked
    /\ \E model \in Models :
         Dispatch("Search", "ids", "search", model, SearchArgs(dom, 1, <<>>))

SearchRead ==
    /\ client = "live"
    /\ ~panicked
    /\ \E model \in Models, fields \in FieldLists :
         LET args == IF Len(fields) # 0
                     THEN Append_(<<DomainVal(dom)>>, <<Strings(fields)>>)
                     ELSE <<DomainVal(dom)>>
         IN  Dispatch("SearchRead", "raw", "search_read", model, args)

SearchCount ==
    /\ client = "live"
    /\ ~panicked
    /\ \E model \in Models :
         Dispatch("SearchCount", "int64", "search_count", model, <<DomainVal(dom)>>)

ExecOps ==
    {"ExecuteKw", "Read", "Create", "Write", "Unlink", "Search", "SearchRead",
     "SearchCount"}

(***************************************************************************)
(* ExecuteKw run step by step next to other callers of the same session:   *)
(* the session's fields are read and written without synchronisation, so   *)
(* Close and Authenticate may run between its steps.                       *)
(*   EkBegin     builds params from getArgs() and checks the contexts;     *)
(*   EkCheck     reads isAuthenticated();                                  *)
(*   EkDispatch  calls execute_kw on client.object as it is then.          *)
(***************************************************************************)
EkBegin ==
    /\ client = "live"
    /\ ~panicked
    /\ ek.pc = "idle"
    /\ \E model \in Models, args \in {<<>>, <<Ids(<<1>>)>>}, n \in 0..MaxCtx :
         LET context == Contexts(n)
             base == Append_(getArgs(uid, auth, cfg),
                             <<Str(model), Str("name_get"), ArgsVal(args)>>)
             params == IF Len(context) = 1 THEN Append_(base, <<context[1]>>)
                       ELSE base
             err == ContextErr(Len(context))
             r == Req(model, "name_get", args, context, FALSE)
         IN  IF err = "nil"
             THEN /\ ek' = [pc |-> "check", req |-> r, params |-> params]
                  /\ UNCHANGED <<pre, ret, calls, req>>
             ELSE /\ ek' = EkIdle
                  /\ pre' = State
                  /\ ret' = Ret("ExecuteKw", "na", err, Nil, n)
                  /\ calls' = <<>>
                  /\ req' = r
    /\ UNCHANGED <<cfg, client, uid, auth, common, object, closed, panicked,
                   opens, authOk, domIn, dom, app>>

EkCheck ==
    /\ ~panicked
    /\ ek.pc = "check"
    /\ IF isAuthenticated(uid, auth)
       THEN /\ ek' = [ek EXCEPT !.pc = "dispatch"]
            /\ UNCHANGED <<pre, ret, calls, req>>
       ELSE /\ ek' = EkIdle
            /\ pre' = State
            /\ ret' = Ret("ExecuteKw", "na", "ClientAuthError", Nil,
                          Len(ek.req.context))
            /\ calls' = <<>>
            /\ req' = ek.req
    /\ UNCHANGED <<cfg, client, uid, auth, common, object, closed, panicked,
                   opens, authOk, domIn, dom, app>>

\* A dispatch step that reads isAuthenticated() again before it calls.
EkDispatch_Recheck ==
    /\ ~panicked
    /\ ek.pc = "dispatch"
    /\ \E reply \in Replies(object, ExecResponses) :
         IF isAuthenticated(uid, auth)
         THEN /\ calls' = <<objectCall(object, "execute_kw", ek.params, uid, auth, reply)>>
              /\ ret' = Ret("ExecuteKw", "na",
                            IF reply.err THEN "TransportError" ELSE "nil",
                            reply.val, Len(ek.req.context))
         ELSE /\ calls' = <<>>
              /\ ret' = Ret("ExecuteKw", "na", "ClientAuthError", Nil,
                            Len(ek.req.context))
    /\ req' = [ek.req EXCEPT !.passed = TRUE]
    /\ pre' = State
    /\ ek' = EkIdle
    /\ UNCHANGED <<cfg, client, uid, auth, common, object, closed, panicked,
                   opens, authOk, domIn, dom, app>>

EkDispatch ==
    /\ ~panicked
    /\ ek.pc = "dispatch"
    /\ \E reply \in Replies(object, ExecResponses) :
         /\ calls' = <<objectCall(object, "execute_kw", ek.params, uid, auth, reply)>>
         /\ ret' = Ret("ExecuteKw", "na",
                       IF reply.err THEN "TransportError" ELSE "nil",
                       reply.val, Len(ek.req.context))
    /\ req' = [ek.req EXCEPT !.passed = TRUE]
    /\ pre' = State
    /\ ek' = EkIdle
    /\ UNCHANGED <<cfg, client, uid, auth, common, object, closed, panicked,
                   opens, authOk, domIn, dom, app>>

NextRace ==
    \/ NewClient
    \/ Authenticate
    \/ Close
    \/ EkBegin
    \/ EkCheck
    \/ EkDispatch

SpecRace == Init /\ [][NextRace]_vars

(***************************************************************************)
(* An Args list built by a caller: a literal, then Append calls.           *)
(***************************************************************************)
ArgValues == {Str("res.users"), Int64(1), Ids(<<1>>)}

NewArgs ==
    /\ \E lit \in SeqsUpTo(ArgValues, 1) :
         app' = [base |-> lit, prev |-> lit, more |-> <<>>, out |-> lit]
    /\ UNCHANGED <<cfg, client, uid, auth, common, object, closed, panicked,
                   pre, ret, calls, opens, authOk, domIn, dom, req, ek>>

DoAppend ==
    /\ \E arg \in SeqsUpTo(ArgValues, MaxAppend) :
         /\ Len(app.out) + Len(arg) <= MaxArgsLen
         /\ app' = [base |-> app.base, prev |-> app.out, more |-> arg,
                    out |-> Append_(app.out, arg)]
    /\ UNCHANGED <<cfg, client, uid, auth, common, object, closed, panicked,
                   pre, ret, calls, opens, authOk, domIn, dom, req, ek>>

NextArgs ==
    \/ NewArgs
    \/ DoAppend

SpecArgs == Init /\ [][NextArgs]_vars

Next ==
    \/ NewClient
    \/ Authenticate
    \/ Close
    \/ DoNewDomain
    \/ ExecuteKw
    \/ Read
    \/ Create
    \/ Write
    \/ Unlink
    \/ Search
    \/ SearchRead
    \/ SearchCount

Spec == Init /\ [][Next]_vars

(***************************************************************************)
(* Properties.  pre is the state the last operation started from, ret what *)
(* it returned, calls the remote calls it issued.                          *)
(***************************************************************************)
SessionOps == ExecOps \cup {"Authenticate"}

WasAuthenticated == pre.uid # 0 /\ pre.auth

\* The authenticate call of the last operation failed: a transport error or
\* a zero id.
AuthCallFailed ==
    /\ Len(calls) = 1
    /\ calls[1].method = "authenticate"
    /\ (calls[1].reply.err \/ calls[1].reply.val = Int64(0))

\* The authenticate call of the last operation returned the id n # 0.
AuthCallReturned(n) ==
    /\ Len(calls) = 1
    /\ calls[1].method = "authenticate"
    /\ ~calls[1].reply.err
    /\ calls[1].reply.val = Int64(n)

\* C1: whenever NewClient returns, a stage that failed (invalid config, an
\* endpoint that could not be opened, an authenticate call answered with an
\* error or a zero id) gives a nil client and a non-nil error, and a non-nil
\* client is authenticated (uid # 0 and auth).
C1_NewClientNilOnFailure ==
    (ret.op = "NewClient" /\ ret.err # "panic") =>
        /\ (ret.client = "nonnil" => uid # 0 /\ auth)
        /\ (AuthCallFailed => ret.client = "nil" /\ ret.err # "nil")
        /\ (ret.client = "nil" => ret.err # "nil")

\* C2: Authenticate on an unauthenticated session whose authenticate call is
\* answered with a transport error or a zero id returns ClientAuthError and
\* leaves uid = 0 and auth = FALSE.
C2_AuthenticateFailureReported ==
    (ret.op = "Authenticate" /\ ~WasAuthenticated /\ AuthCallFailed) =>
        /\ ret.err = "ClientAuthError"
        /\ uid = 0
        /\ auth = FALSE

\* C3: for a config with at least one empty field NewClient returns a nil
\* client and InvalidConfigError, opens no endpoint and issues no call.
C3_InvalidConfigRejected ==
    (/\ ret.op = "NewClient"
     /\ (cfg.Url = "" \/ cfg.Db = "" \/ cfg.Username = "" \/ cfg.Password = "")) =>
        /\ ret.client = "nil"
        /\ ret.err = "InvalidConfigError"
        /\ opens = 0
        /\ calls = <<>>
        /\ common = "nil"
        /\ object = "nil"

C3_Witness ==
    /\ ret.op = "NewClient"
    /\ cfg.Url # "" /\ cfg.Db # "" /\ cfg.Username # "" /\ cfg.Password = ""
    /\ ret.err = "InvalidConfigError"

\* C4: a call through ExecuteKw with two or more context maps returns
\* InvalidContextError with a nil result and issues no remote call, whatever
\* the session state; with zero or one context map the error is never
\* InvalidContextError.
C4_ContextArity ==
    ret.op \in ExecOps =>
        /\ (ret.nctx >= 2 =>
              /\ ret.err = "InvalidContextError"
              /\ calls = <<>>
              /\ (ret.op = "ExecuteKw" => ret.result = Nil))
        /\ (ret.nctx <= 1 => ret.err # "InvalidContextError")

C4_Witness ==
    /\ ret.op = "ExecuteKw"
    /\ ret.nctx >= 2
    /\ WasAuthenticated
    /\ ret.err = "InvalidContextError"

\* C5 as stated: ExecuteKw and every typed wrapper called on a session that
\* is not authenticated return an authentication error and issue no remote
\* call; execute_kw is only issued from a state with uid # 0 and auth.
C5_UnauthenticatedRejected_AsStated ==
    ret.op \in ExecOps =>
        /\ (~WasAuthenticated => ret.err = "ClientAuthError" /\ calls = <<>>)
        /\ \A i \in 1..Len(calls) :
             calls[i].method = "execute_kw" => WasAuthenticated

\* C5 amended: ExecuteKw and every typed wrapper called on a session that is
\* not authenticated issue no remote call and return an error, which is the
\* authentication error when at most one context map is passed and
\* InvalidContextError when two or more are; execute_kw is only issued from
\* a state with uid # 0 and auth.
C5_UnauthenticatedRejected ==
    ret.op \in ExecOps =>
        /\ (~WasAuthenticated =>
              /\ calls = <<>>
              /\ ret.err = IF ret.nctx >= 2 THEN "InvalidContextError"
                           ELSE "ClientAuthError")
        /\ \A i \in 1..Len(calls) :
             calls[i].method = "execute_kw" => WasAuthenticated

C5_Witness ==
    /\ ret.op = "Search"
    /\ ~WasAuthenticated
    /\ ret.nctx = 1
    /\ ret.err = "ClientAuthError"

\* C6: NewClient whose authenticate call returns an id N # 0 yields a
\* session with uid = N and auth = TRUE; Close leaves uid = 0 and
\* auth = FALSE whether or not closing the handles reported an error.
C6_ConstructThenClose ==
    /\ \A n \in 1..MaxUid :
         (ret.op = "NewClient" /\ AuthCallReturned(n)) =>
             /\ ret.client = "nonnil"
             /\ ret.err = "nil"
             /\ uid = n
             /\ auth = TRUE
    /\ (ret.op = "Close" => uid = 0 /\ auth = FALSE)

C6_Witness ==
    /\ ret.op = "Close"
    /\ ret.err # "nil"
    /\ WasAuthenticated
    /\ uid = 0
    /\ auth = FALSE

\* C7: Authenticate on an authenticated session returns nil, issues no
\* remote call and leaves uid and auth as they were; a session that was
\* never closed has seen at most one accepted authenticate call.
C7_AuthenticateIdempotent ==
    /\ (ret.op = "Authenticate" /\ WasAuthenticated) =>
           /\ ret.err = "nil"
           /\ calls = <<>>
           /\ uid = pre.uid
           /\ auth = pre.auth
    /\ (~closed => authOk <= 1)

C7_Witness ==
    /\ ret.op = "Authenticate"
    /\ WasAuthenticated
    /\ ~closed
    /\ authOk = 1

\* C8: an operation run after Close fails with an error, issues no call on
\* a handle that Close released, and leaves the session unauthenticated.
C8_FailsCleanlyAfterClose ==
    (pre.closed /\ ret.op \in SessionOps) =>
        /\ ret.err # "nil"
        /\ \A i \in 1..Len(calls) : calls[i].handle # "closed"
        /\ ~(uid # 0 /\ auth)

\* C9: when Close has returned, both transport handles are released, also
\* when closing one of them reported an error.
C9_CloseReleasesBoth ==
    ret.op = "Close" => common = "closed" /\ object = "closed"

\* C10: NewDomain(e1, ..., en) is the sequence e1, ..., en itself: n
\* elements, the i-th being e_i, with no nesting level around them.
C10_NewDomainSingleLevel ==
    ret.op = "NewDomain" =>
        /\ Len(dom) = Len(domIn)
        /\ \A i \in 1..Len(domIn) : dom[i] = domIn[i]

\* C11: every execute_kw request carries, in this order, the credential
\* prefix, the model name, the method name, the call's args as one element
\* and then the context map, which is there exactly when one context was
\* passed.
C11_ParamsOrder ==
    \A i \in 1..Len(calls) :
      calls[i].method = "execute_kw" =>
        LET p == calls[i].args
            one == Len(req.context) = 1
        IN  /\ Len(p) = IF one THEN 7 ELSE 6
            /\ SubSeq(p, 1, 3) = <<Str(cfg.Db), Int64(pre.uid), Str(cfg.Password)>>
            /\ p[4] = Str(req.model)
            /\ p[5] = Str(req.method)
            /\ p[6] = ArgsVal(req.args)
            /\ (one => p[7] = req.context[1])

C11_Witness ==
    /\ ret.op = "Write"
    /\ Len(calls) = 1
    /\ calls[1].method = "execute_kw"
    /\ Len(req.context) = 1
    /\ Len(calls[1].args) = 7

\* C12: an authenticate call goes to the common endpoint with the prefix
\* db, username, password, ""; an execute_kw call goes to the object
\* endpoint and starts with db, uid, password, uid being the stored non-zero
\* id; execute_kw never starts with the four-element prefix.
C12_PrefixMatchesCall ==
    \A i \in 1..Len(calls) :
      LET c == calls[i]
          login == <<Str(cfg.Db), Str(cfg.Username), Str(cfg.Password), Str("")>>
      IN  /\ c.method = "authenticate" =>
                c.endpoint = "common" /\ c.args = login
          /\ c.method = "execute_kw" =>
                /\ c.endpoint = "object"
                /\ pre.uid # 0
                /\ Len(c.args) >= 4
                /\ SubSeq(c.args, 1, 3) =
                       <<Str(cfg.Db), Int64(pre.uid), Str(cfg.Password)>>
                /\ SubSeq(c.args, 1, 4) # login

C12_Witness ==
    /\ ret.op = "Read"
    /\ Len(calls) = 1
    /\ calls[1].method = "execute_kw"
    /\ calls[1].args[2] = Int64(MaxUid)

\* C13: in every state, auth = TRUE only with uid # 0, whatever the
\* authenticate call returned, a numeric zero included.
C13_AuthImpliesUid == auth => uid # 0

\* C14: for a Domain built by NewDomain, SearchCount, and SearchRead without
\* fields, hand ExecuteKw the args that Search hands it for that Domain.
C14_SameDomainArgs ==
    (/\ dom = NewDomain(domIn)
     /\ (ret.op = "SearchCount" \/ (ret.op = "SearchRead" /\ Len(req.args) = 1))) =>
        req.args = SearchArgs(dom, 1, <<>>)

\* C15: no operation issues more than one remote call; an execute_kw call
\* answered with a transport error is not repeated, its error is what the
\* operation returns, and uid and auth stay as they were.
C15_TransportErrorOnce ==
    /\ Len(calls) <= 1
    /\ (/\ ret.op \in ExecOps
        /\ Len(calls) >= 1
        /\ calls[1].method = "execute_kw"
        /\ calls[1].reply.err) =>
           /\ ret.err = "TransportError"
           /\ uid = pre.uid
           /\ auth = pre.auth

C15_Witness ==
    /\ ret.op = "Unlink"
    /\ Len(calls) = 1
    /\ calls[1].reply.err
    /\ ret.err = "TransportError"
    /\ uid # 0

\* The error ExecuteKw returned to the wrapper that ran last, read off the
\* call's arguments, the session state and the reply.
ExecuteKwErr ==
    IF Len(req.context) >= 2 THEN "InvalidContextError"
    ELSE IF ~WasAuthenticated THEN "ClientAuthError"
    ELSE IF Len(calls) >= 1 /\ calls[1].reply.err THEN "TransportError"
    ELSE "nil"

\* The zero value of the result type of each wrapper.
ZeroResult(op) ==
    CASE op \in {"Create", "SearchCount"} -> Int64(0)
      [] op \in {"Write", "Unlink"} -> Bool(FALSE)
      [] op = "Search" -> NilIds
      [] op \in {"Read", "SearchRead"} -> Nil

\* C17: when ExecuteKw returns an error (authentication, invalid context or
\* transport), the wrapper returns that error with the zero value of its
\* result type and coerces nothing: 0 for Create and SearchCount, false for
\* Write and Unlink, a nil sequence for Search.
C17_WrapperErrorZeroValue ==
    (ret.op \in ExecOps \ {"ExecuteKw"} /\ ExecuteKwErr # "nil") =>
        /\ ret.err = ExecuteKwErr
        /\ ret.result = ZeroResult(ret.op)
        /\ ~panicked

C17_Witness ==
    /\ ret.op = "Search"
    /\ ret.err = "TransportError"
    /\ ret.result = NilIds
    /\ Len(calls) = 1

\* C18: Append(v1, ..., vk) on a list of length n gives a list of length
\* n + k whose first n elements are the former ones in their order, followed
\* by v1, ..., vk in call order; over any number of Append calls the list it
\* started from stays its prefix.
C18_AppendKeepsOrder ==
    /\ Len(app.out) = Len(app.prev) + Len(app.more)
    /\ \A i \in 1..Len(app.prev) : app.out[i] = app.prev[i]
    /\ \A j \in 1..Len(app.more) : app.out[Len(app.prev) + j] = app.more[j]
    /\ Len(app.base) <= Len(app.out)
    /\ \A i \in 1..Len(app.base) : app.out[i] = app.base[i]

C18_Witness ==
    /\ Len(app.base) = 1
    /\ Len(app.prev) >= 2
    /\ Len(app.more) = 2
    /\ app.more[1] # app.more[2]
    /\ app.prev[1] # app.more[1]
    /\ Len(app.out) = Len(app.prev) + 2

\* C16: nothing orders ExecuteKw's authentication check and its dispatch
\* against Close: an ExecuteKw that got past the check always sends
\* execute_kw on the object handle as it is at that moment, so with Close
\* run in between the call goes out over the released handle of a session
\* that is no longer authenticated.
C16_DispatchAfterCheck ==
    (ret.op = "ExecuteKw" /\ req.passed) =>
        /\ Len(calls) = 1
        /\ calls[1].method = "execute_kw"
        /\ calls[1].endpoint = "object"
        /\ calls[1].handle = pre.object

C16_Witness ==
    /\ ret.op = "ExecuteKw"
    /\ req.passed
    /\ pre.closed
    /\ pre.uid = 0
    /\ ~pre.auth
    /\ Len(calls) = 1
    /\ calls[1].method = "execute_kw"
    /\ calls[1].handle = "closed"
====
